---------------------------- MODULE Spec2Model ----------------------------
(***************************************************************************)
(* A model of the LPGNN transform pipeline (transforms.py) and of the      *)
(* degree-bucketed error estimator (error.py).                             *)
(*                                                                         *)
(* Tensors hold exact rationals <<num, den>> (den > 0, lowest terms); the  *)
(* IEEE special values are <<1, 0>> (+inf), <<-1, 0>> (-inf) and <<0, 0>>  *)
(* (NaN).  Rounding of floats is not modelled: every input of the model is *)
(* a small integer or a dyadic fraction, for which the operations below    *)
(* are exact in binary floating point as well.                             *)
(*                                                                         *)
(* A tensor is a record [dim |-> 1 or 2, v |-> <<...>>]: v is a sequence   *)
(* of numbers (dim = 1) or a sequence of rows (dim = 2).                   *)
(***************************************************************************)
EXTENDS Integers, Sequences, FiniteSets, TLC

\* --------------------------------------------------------------- bounds
\* number of feature transform calls in one behaviour
MaxCalls == 3

\* number of NodeSplit and LabelPerturbation calls in one behaviour
MaxLabelCalls == 4

\* the datasets of SpecFeature: two nodes joined by an edge, two attribute
\* columns, attribute values 0 and 1
FNodes == 1 .. 2
FCols == 1 .. 2
AttrVals == 0 .. 1

\* "attribute not set" (hasattr(data, ...) is False) and Python's None
\* (an optional value is a sequence of at most one element)
NoAttr == <<>>
None == <<>>
Some(v) == <<v>>
Get(o) == o[1]

\* ------------------------------------------------------------ rationals
Abs(n) == IF n < 0 THEN -n ELSE n

Sign(n) == IF n < 0 THEN -1 ELSE IF n > 0 THEN 1 ELSE 0

RECURSIVE GCD(_, _)
GCD(a, b) == IF b = 0 THEN a ELSE GCD(b, a % b)

\* n / d in lowest terms; a zero denominator gives +inf, -inf or NaN
Norm(n, d) ==
    IF d = 0 THEN <<Sign(n), 0>>
    ELSE LET g == GCD(Abs(n), Abs(d))
             s == Sign(d)
         IN  <<(s * n) \div g, (s * d) \div g>>

Q(n) == <<n, 1>>
NaN == <<0, 0>>
Inf == <<1, 0>>
IsNaN(a) == a = NaN
IsFinite(a) == a[2] # 0

QAdd(a, b) ==
    IF a[2] = 0 /\ b[2] = 0
    THEN (IF a = b THEN a ELSE NaN)
    ELSE Norm(a[1] * b[2] + b[1] * a[2], a[2] * b[2])

QNeg(a) == <<-a[1], a[2]>>
QSub(a, b) == QAdd(a, QNeg(b))
QMul(a, b) == Norm(a[1] * b[1], a[2] * b[2])
QRecip(a) == Norm(a[2], a[1])
QDiv(a, b) == IF b = Q(0) THEN Norm(a[1], 0) ELSE QMul(a, QRecip(b))
QLess(a, b) ==
    IF IsNaN(a) \/ IsNaN(b) THEN FALSE
    ELSE IF a[2] = 0 /\ b[2] = 0 THEN a[1] < b[1]
    ELSE IF a[2] = 0 THEN a[1] < 0
    ELSE IF b[2] = 0 THEN b[1] > 0
    ELSE a[1] * b[2] < b[1] * a[2]
QLeq(a, b) == (a = b /\ ~IsNaN(a)) \/ QLess(a, b)

\* ------------------------------------------------------------- sequences
RECURSIVE SeqSum(_)
SeqSum(s) == IF s = <<>> THEN Q(0) ELSE QAdd(s[1], SeqSum(Tail(s)))

\* torch.min / torch.max of a non-empty list of numbers: NaN propagates
RECURSIVE SeqMin(_)
SeqMin(s) ==
    IF Len(s) = 1 THEN s[1]
    ELSE LET m == SeqMin(Tail(s))
         IN  IF IsNaN(s[1]) \/ IsNaN(m) THEN NaN
             ELSE IF QLess(m, s[1]) THEN m ELSE s[1]

RECURSIVE SeqMax(_)
SeqMax(s) ==
    IF Len(s) = 1 THEN s[1]
    ELSE LET m == SeqMax(Tail(s))
         IN  IF IsNaN(s[1]) \/ IsNaN(m) THEN NaN
             ELSE IF QLess(s[1], m) THEN m ELSE s[1]

RECURSIVE Flatten(_)
Flatten(rows) == IF rows = <<>> THEN <<>> ELSE rows[1] \o Flatten(Tail(rows))

\* the increasing sequence of the members of a set of integers
RECURSIVE SortedSeq(_)
SortedSeq(S) ==
    IF S = {} THEN <<>>
    ELSE LET m == CHOOSE a \in S : \A b \in S : a <= b
         IN  <<m>> \o SortedSeq(S \ {m})

\* --------------------------------------------------------------- tensors
Mat(rows) == [dim |-> 2, v |-> rows]
Vec(vals) == [dim |-> 1, v |-> vals]
Size0(t) == Len(t.v)
\* PyG's Data.num_features: 1 for a one-dimensional x, else x.size(1)
num_features(t) == IF t.dim = 1 THEN 1 ELSE IF Len(t.v) = 0 THEN 0 ELSE Len(t.v[1])
Elems(t) == IF t.dim = 1 THEN t.v ELSE Flatten(t.v)
Column(t, j) == [i \in 1 .. Size0(t) |-> t.v[i][j]]
\* torch.zeros_like(t)
ZerosLike(t) ==
    IF t.dim = 1 THEN Vec([i \in 1 .. Len(t.v) |-> Q(0)])
    ELSE Mat([i \in 1 .. Len(t.v) |-> [j \in 1 .. Len(t.v[i]) |-> Q(0)]])

\* all n x d matrices with entries in the set S
Matrices(n, d, S) == {Mat(m) : m \in [1 .. n -> [1 .. d -> S]]}


\* ------------------------------------------------------------------ state
VARIABLES
    x,           \* data.x: the attribute tensor
    x_raw,       \* data.x_raw, or NoAttr
    adj_t,       \* data.adj_t / data.edge_index: a set of directed edges <<i, j>>
    y,           \* data.y: the labels, -1 for "no label"
    y_raw,       \* data.y_raw, or NoAttr
    y0,          \* the labels the dataset was loaded with
    train_mask,  \* data.train_mask: a set of nodes
    val_mask,    \* data.val_mask
    test_mask,   \* data.test_mask
    fp,          \* the FeaturePerturbation instance
    lp,          \* the LabelPerturbation instance
    ns,          \* the NodeSplit instance
    raised,      \* an exception has ended the run
    calls,       \* number of transform calls made
    fpLog,       \* one record per mechanism invocation of fp, oldest first
    pristine,    \* data.x before any perturbation: recorded when fp is first
                 \* called with epsilon_x set, or when the dataset is loaded
    ee,          \* the ErrorEstimation instance, or None
    logger,      \* the metrics the last ErrorEstimation.run logged, in order
    trainer,     \* the Trainer instance with the locals of fit, or None
    checkpoint_file,  \* what the file at checkpoint_path holds, None if absent
    last         \* the last call: its name, its arguments and the attribute
                 \* it works on (data.x, data.y) as it was on entry

vars == <<x, x_raw, adj_t, y, y_raw, y0, train_mask, val_mask, test_mask,
          fp, lp, ns, raised, calls, fpLog, pristine, ee, logger,
          trainer, checkpoint_file, last>>

Called(name, entry, args) == [op |-> name, entry |-> entry, args |-> args]

dataLabelVars == <<y, y_raw, y0, train_mask, val_mask, test_mask, lp, ns>>

dataFeatureVars == <<x, x_raw, fp, fpLog, pristine>>

errorVars == <<ee, logger>>

trainerVars == <<trainer, checkpoint_file>>

\* the values torch.rand draws in the model (uniform on [0, 1) in the code)
RandVals == {Q(0), <<3, 4>>}

\* undirected simple graphs on a node set, as symmetric sets of directed edges
Graphs(nodes) ==
    {E \in SUBSET (nodes \X nodes) :
        \A e \in E : e[1] # e[2] /\ <<e[2], e[1]>> \in E}

\* the path 1 - 2 - ... - n
PathGraph(nodes) == {e \in nodes \X nodes : e[1] - e[2] \in {1, -1}}

\* adj_t.sum(dim=0): number of edges into each node
InDegree(adj, i) == Cardinality({e \in adj : e[2] = i})

\* ------------------------------------------------------ RandomizedProjection
\* torch.rand(input_dim, output_dim)
RandomizedProjectionInit(input_dim, output_dim) ==
    [1 .. input_dim -> [1 .. output_dim -> RandVals]]

\* whether data.x.matmul(self.w) raises a size mismatch
MatmulRaises(t, w) ==
    IF t.dim = 1 THEN Len(t.v) # Len(w)
    ELSE Len(t.v) > 0 /\ Len(t.v[1]) # Len(w)

Dot(row, w, k) == SeqSum([j \in 1 .. Len(row) |-> QMul(row[j], w[j][k])])

\* data.x.matmul(self.w); w is input_dim x output_dim
RandomizedProjection(t, w, output_dim) ==
    IF t.dim = 1 THEN Vec([k \in 1 .. output_dim |-> Dot(t.v, w, k)])
    ELSE Mat([i \in 1 .. Len(t.v) |-> [k \in 1 .. output_dim |-> Dot(t.v[i], w, k)]])

\* ------------------------------------------------------ feature mechanism
\* supported_feature_mechanisms[m](eps, input_range)(x): an opaque randomized
\* map returning a tensor of x's shape.  Draw s sends the k-th entry to one
\* end of input_range.
MechEntry(range, k, s) == IF (k + s) % 2 = 0 THEN range[1] ELSE range[2]

Mechanism(range, t, s) ==
    IF t.dim = 1 THEN Vec([i \in 1 .. Len(t.v) |-> MechEntry(range, i, s)])
    ELSE Mat([i \in 1 .. Len(t.v) |->
                 [j \in 1 .. Len(t.v[i]) |-> MechEntry(range, i + j, s)]])

MechDraws == 0 .. 1

\* ------------------------------------------------------ FeaturePerturbation
\* __init__; data_range is kept beside input_range, which the calls overwrite
FeaturePerturbationInit(epsilon_x, reduce_dim, data_range) ==
    [epsilon_x |-> epsilon_x, reduce_dim |-> reduce_dim,
     input_range |-> data_range, data_range |-> data_range]

\* lines 57-60: the tensor the call works on (snapshot or restore)
FPMutBase(xcur, raw) == xcur

FPBase(xcur, raw) == IF raw = NoAttr THEN xcur ELSE Get(raw)

\* lines 57-58: data.x_raw after the call
FPRaw(xcur, raw) == IF raw = NoAttr THEN Some(xcur) ELSE raw

\* lines 62-63: self.input_range after the check (base is data.x there)
FPMutRange(input_range, base) ==
    IF input_range = None
    THEN <<SeqMax(Elems(base)), SeqMin(Elems(base))>>
    ELSE Get(input_range)

FPRange(input_range, base) ==
    IF input_range = None
    THEN <<SeqMin(Elems(base)), SeqMax(Elems(base))>>
    ELSE Get(input_range)

\* the call returns at line 55: epsilon_x is None
FPMutDisabled(inst) == FALSE

FPDisabled(inst) == inst.epsilon_x = None

FeaturePerturbationCall ==
    /\ ~raised
    /\ calls < MaxCalls
    /\ calls' = calls + 1
    /\ last' = Called("FeaturePerturbation", Some(x), <<>>)
    /\ UNCHANGED <<adj_t, dataLabelVars, errorVars, trainerVars>>
    /\ IF FPDisabled(fp)
       THEN UNCHANGED <<x, x_raw, fp, raised, fpLog, pristine>>
       ELSE LET base == FPBase(x, x_raw)
                raw == FPRaw(x, x_raw)
            IN  /\ x_raw' = raw
                /\ pristine' = IF pristine = NoAttr THEN Some(x) ELSE pristine
                /\ IF fp.input_range = None /\ Elems(base) = <<>>
                   THEN \* min() of an empty tensor raises at line 63
                        /\ x' = base
                        /\ raised' = TRUE
                        /\ UNCHANGED <<fp, fpLog>>
                   ELSE LET range == FPRange(fp.input_range, base)
                        IN  /\ fp' = [fp EXCEPT !.input_range = Some(range)]
                            /\ IF fp.reduce_dim # None
                               THEN \E w \in RandomizedProjectionInit(
                                                num_features(base), Get(fp.reduce_dim)) :
                                      IF MatmulRaises(base, w)
                                      THEN /\ x' = base
                                           /\ raised' = TRUE
                                           /\ UNCHANGED fpLog
                                      ELSE \E s \in MechDraws :
                                             LET arg == RandomizedProjection(
                                                            base, w, Get(fp.reduce_dim))
                                             IN  /\ x' = Mechanism(range, arg, s)
                                                 /\ fpLog' = Append(fpLog,
                                                       [base |-> base, w |-> Some(w),
                                                        arg |-> arg, range |-> range])
                                                 /\ UNCHANGED raised
                               ELSE \E s \in MechDraws :
                                      /\ x' = Mechanism(range, base, s)
                                      /\ fpLog' = Append(fpLog,
                                            [base |-> base, w |-> None,
                                             arg |-> base, range |-> range])
                                      /\ UNCHANGED raised


\* ---------------------------------------------------------------- Normalize
\* line 197-199: per-column minimum and range (scalars for a 1-D tensor)
ColIdx(t) == 1 .. num_features(t)
NormAlpha(t) ==
    IF t.dim = 1 THEN <<SeqMin(t.v)>> ELSE [j \in ColIdx(t) |-> SeqMin(Column(t, j))]
NormBeta(t) ==
    IF t.dim = 1 THEN <<SeqMax(t.v)>> ELSE [j \in ColIdx(t) |-> SeqMax(Column(t, j))]
NormDelta(t) == [j \in ColIdx(t) |-> QSub(NormBeta(t)[j], NormAlpha(t)[j])]

\* line 200: (x - alpha) * (max - min) / delta + min for one entry of column j
NormEntry(v, t, j, low, high) ==
    QAdd(QDiv(QMul(QSub(v, NormAlpha(t)[j]), Q(high - low)), NormDelta(t)[j]), Q(low))

NormScaled(t, low, high) ==
    IF t.dim = 1 THEN Vec([i \in 1 .. Len(t.v) |-> NormEntry(t.v[i], t, 1, low, high)])
    ELSE Mat([i \in 1 .. Len(t.v) |->
                 [j \in ColIdx(t) |-> NormEntry(t.v[i][j], t, j, low, high)]])

\* line 201: torch.nonzero(delta, as_tuple=False), the k x 1 list of the columns
\* whose range is not zero, in increasing order
NonZero(delta) == SortedSeq({j \in 1 .. Len(delta) : delta[j] # Q(0)})

\* .squeeze() of the k x 1 index tensor: a 0-dimensional index when k = 1
Squeeze(idx) ==
    IF Len(idx) = 1 THEN [scalar |-> TRUE, at |-> idx[1]]
    ELSE [scalar |-> FALSE, at |-> idx]

\* data.x[:, index] of a 2-D tensor: a 0-dimensional index selects one column
\* as a 1-D tensor, a 1-D index selects columns and keeps two dimensions
IndexColumns(t, index) ==
    IF index.scalar THEN Vec([i \in 1 .. Len(t.v) |-> t.v[i][index.at]])
    ELSE Mat([i \in 1 .. Len(t.v) |->
                 [k \in 1 .. Len(index.at) |-> t.v[i][index.at[k]]]])

\* Normalize.__call__: data.x after the call, and whether line 201 raised
\* (a 1-D tensor cannot be indexed with two indices)
Normalize(t, low, high) ==
    IF t.dim = 1 THEN [x |-> NormScaled(t, low, high), raises |-> TRUE]
    ELSE [x |-> IndexColumns(NormScaled(t, low, high), Squeeze(NonZero(NormDelta(t)))),
          raises |-> FALSE]

\* the (low, high) pairs Normalize is constructed with
NormTargets == {<<0, 1>>, <<-1, 1>>}

NormalizeCall ==
    /\ ~raised
    /\ calls < MaxCalls
    /\ calls' = calls + 1
    /\ \E lh \in NormTargets :
          LET r == Normalize(x, lh[1], lh[2])
          IN  /\ x' = r.x
              /\ raised' = r.raises
              /\ last' = Called("Normalize", Some(x), lh)
    /\ UNCHANGED <<x_raw, adj_t, dataLabelVars, fp, fpLog, pristine, errorVars, trainerVars>>

\* ------------------------------------------------------------- OneHotDegree
Min2(a, b) == IF a < b THEN a ELSE b

\* degree.clamp_(max=max_degree), then F.one_hot(degree, max_degree + 1)
OneHotDegree(adj, n, max_degree) ==
    Mat([i \in 1 .. n |->
           [k \in 1 .. max_degree + 1 |->
              IF k = Min2(InDegree(adj, i), max_degree) + 1 THEN Q(1) ELSE Q(0)]])

\* --------------------------------------------------------- FeatureTransform
supported_features == {"raw", "rnd", "one", "ohd", "crnd"}

\* torch.rand_like(data.x)
RandLike(t) ==
    IF t.dim = 1 THEN {Vec(v) : v \in [1 .. Len(t.v) -> RandVals]}
    ELSE {Mat(m) : m \in [1 .. Len(t.v) -> [ColIdx(t) -> RandVals]]}

\* 'crnd': zeros_like(x).scatter(1, s, r) with one random column s[i] and one
\* random value r[i] per node
Concentrated(t) ==
    {Mat([i \in 1 .. Len(t.v) |-> [j \in ColIdx(t) |-> IF j = s[i] THEN r[i] ELSE Q(0)]]) :
        s \in [1 .. Len(t.v) -> ColIdx(t)], r \in [1 .. Len(t.v) -> RandVals]}

\* whether FeatureTransform(feature) raises on t: topk(1, dim=1) needs a second
\* dimension of size >= 1, one_hot needs at least one class
FeatureTransformRaises(t, feature) ==
    \/ feature = "crnd" /\ (t.dim = 1 \/ num_features(t) = 0)
    \/ feature = "ohd" /\ num_features(t) = 0

\* the tensors FeatureTransform(feature) may leave in data.x
FeatureTransform(t, adj, feature) ==
    CASE feature = "raw" -> {t}
      [] feature = "rnd" -> RandLike(t)
      [] feature = "one" -> {ZerosLike(t)}
      [] feature = "ohd" -> {OneHotDegree(adj, Len(t.v), num_features(t) - 1)}
      [] feature = "crnd" -> Concentrated(t)

FeatureTransformCall ==
    /\ ~raised
    /\ calls < MaxCalls
    /\ calls' = calls + 1
    /\ \E feature \in supported_features :
          /\ last' = Called("FeatureTransform", None, <<>>)
          /\ IF FeatureTransformRaises(x, feature)
             THEN raised' = TRUE /\ UNCHANGED x
             ELSE /\ x' \in FeatureTransform(x, adj_t, feature)
                  /\ UNCHANGED raised
    /\ UNCHANGED <<x_raw, adj_t, dataLabelVars, fp, fpLog, pristine, errorVars, trainerVars>>

\* ------------------------------------------------- the feature pipeline
FPConfigs ==
    {FeaturePerturbationInit(e, r, d) :
        e \in {None, Some(1)}, r \in {None, Some(1)},
        d \in {None, Some(<<Q(0), Q(1)>>)}}

InitFeature ==
    /\ x \in Matrices(Cardinality(FNodes), Cardinality(FCols), {Q(v) : v \in AttrVals})
    /\ x_raw = NoAttr
    /\ adj_t = PathGraph(FNodes)
    /\ y = [i \in FNodes |-> 0]
    /\ y_raw = NoAttr
    /\ y0 = y
    /\ train_mask = {}
    /\ val_mask = {}
    /\ test_mask = {}
    /\ fp \in FPConfigs
    /\ lp = [epsilon_y |-> None, lp_step |-> 0]
    /\ ns = [train_ratio |-> 2, val_ratio |-> 1, test_ratio |-> 1]
    /\ raised = FALSE
    /\ calls = 0
    /\ fpLog = <<>>
    /\ pristine = NoAttr
    /\ ee = None
    /\ logger = <<>>
    /\ trainer = None
    /\ checkpoint_file = None
    /\ last = Called("none", None, <<>>)

NextFeature ==
    \/ FeaturePerturbationCall
    \/ NormalizeCall
    \/ FeatureTransformCall

SpecFeature == InitFeature /\ [][NextFeature]_vars


\* ------------------------------------------------ claims on SpecFeature
MinMax(t) == <<SeqMin(Elems(t)), SeqMax(Elems(t))>>

\* C1: x_raw is written once and always equals the attributes the dataset had
\* before fp's first call; every mechanism invocation works on that pristine
\* tensor, whatever data.x was on entry to the call.
C1_PristineBase ==
    /\ x_raw = pristine
    /\ \A k \in 1 .. Len(fpLog) : fpLog[k].base = Get(pristine)

\* a second invocation whose data.x on entry was no longer pristine, with
\* another stage called between the two invocations
C1_Witness ==
    /\ Len(fpLog) = 2
    /\ calls = 3
    /\ last.op = "FeaturePerturbation"
    /\ Get(last.entry) # Get(pristine)
    /\ x # Get(x_raw)

\* C7: with epsilon_x = None a call leaves data.x as it was on entry, creates
\* no x_raw and leaves input_range as the constructor set it.
C7_DisabledNoOp ==
    fp.epsilon_x = None =>
        /\ x_raw = NoAttr
        /\ fp.input_range = fp.data_range
        /\ fpLog = <<>>
        /\ last.op = "FeaturePerturbation" => x = Get(last.entry)

C7_Witness ==
    /\ fp.epsilon_x = None
    /\ last.op = "FeaturePerturbation"
    /\ calls = 3

\* C8: the projection matrix is drawn once: every invocation of the instance
\* multiplies by the same matrix.
C8_OneProjection ==
    \A k \in 1 .. Len(fpLog) : fpLog[k].w = fpLog[1].w

\* C10: without data_range, input_range is (min, max) of the pristine
\* attributes from the first invocation on, and every invocation hands that
\* pair to the mechanism.
C10_FrozenRange ==
    fp.data_range = None =>
        IF fp.input_range = None
        THEN fpLog = <<>>
        ELSE /\ pristine # NoAttr
             /\ fp.input_range = Some(MinMax(Get(pristine)))
             /\ \A k \in 1 .. Len(fpLog) : fpLog[k].range = MinMax(Get(pristine))

\* a second invocation on entry to which data.x had another range than the
\* pristine attributes
C10_Witness ==
    /\ fp.data_range = None
    /\ Len(fpLog) = 2
    /\ last.op = "FeaturePerturbation"
    /\ Elems(Get(last.entry)) # <<>>
    /\ MinMax(Get(last.entry)) # MinMax(Get(pristine))
    /\ MinMax(Get(pristine))[1] # MinMax(Get(pristine))[2]


\* C5: Normalize(low, high) on an N x D matrix leaves an N x D' matrix, D' the
\* number of input columns of non-zero range (D' = 1 and D' = 0 included), the
\* retained columns in their original order, each with minimum low and
\* maximum high.
NormalizedShape(inp, out, low, high) ==
    LET keep == NonZero(NormDelta(inp))
    IN  /\ out.dim = 2
        /\ Len(out.v) = Len(inp.v)
        /\ \A i \in 1 .. Len(out.v) : Len(out.v[i]) = Len(keep)
        /\ \A k \in 1 .. Len(keep) :
              /\ SeqMin(Column(out, k)) = Q(low)
              /\ SeqMax(Column(out, k)) = Q(high)
              /\ \A i \in 1 .. Len(inp.v) :
                    inp.v[i][keep[k]] = NormAlpha(inp)[keep[k]] <=> out.v[i][k] = Q(low)

C5_NormalizeColumns ==
    (last.op = "Normalize" /\ Get(last.entry).dim = 2) =>
        NormalizedShape(Get(last.entry), x, last.args[1], last.args[2])


\* ---------------------------------------------------------------- NodeSplit
\* nodes and labels of the datasets of SpecLabel: three nodes, two classes,
\* the last node of class 1 or unlabeled (-1)
LNodes == 1 .. 3
Classes == 0 .. 1
LabelInputs ==
    {l \in [LNodes -> Classes \cup {-1}] :
        \A i \in LNodes : IF i = Cardinality(LNodes) THEN l[i] # 0 ELSE l[i] # -1}

\* the graphs of SpecLabel: no edge, one edge, a path, the triangle
Undirected(pairs) == pairs \cup {<<e[2], e[1]>> : e \in pairs}
LabelGraphs ==
    {Undirected({}), Undirected({<<1, 2>>}), Undirected({<<2, 3>>}),
     Undirected({<<1, 2>>, <<2, 3>>}), Undirected({<<1, 2>>, <<2, 3>>, <<1, 3>>})}

\* Ratios are counted in quarters: the ratio q stands for the float q / 4,
\* for which the products and sums below are exact.
\* int(ratio * n): Python's int() truncates toward zero
IntOfQuarters(q, n) == Sign(q * n) * (Abs(q * n) \div 4)

\* __init__: the instance, train_ratio = 1 - (val_ratio + test_ratio) if None
NodeSplitInit(train_ratio, val_ratio, test_ratio) ==
    [train_ratio |-> IF train_ratio = None THEN 4 - (val_ratio + test_ratio)
                     ELSE Get(train_ratio),
     val_ratio |-> val_ratio,
     test_ratio |-> test_ratio]

\* the constructor arguments of the model, and the instances that pass the
\* assert of line 144
RatioArgs == -1 .. 3
NodeSplits ==
    {inst \in {NodeSplitInit(t, v, e) :
                  t \in {None} \cup {Some(q) : q \in RatioArgs},
                  v \in RatioArgs, e \in RatioArgs} :
        inst.train_ratio > 0}

\* perm[a:b] of Python, on a 1-based sequence
SliceIndex(i, len) ==
    IF i < 0 THEN (IF i + len < 0 THEN 0 ELSE i + len)
    ELSE IF i > len THEN len ELSE i
PySlice(s, a, b) == SubSeq(s, SliceIndex(a, Len(s)) + 1, SliceIndex(b, Len(s)))

Range(f) == {f[i] : i \in DOMAIN f}

\* lines 152-157: the nodes with a class, in node order
NodesWithClass(labels) ==
    IF -1 \in Range(labels)
    THEN SortedSeq({i \in DOMAIN labels : labels[i] # -1})
    ELSE SortedSeq(DOMAIN labels)

\* torch.randperm(n): the permutations of 1 .. n
Perms(n) == {p \in [1 .. n -> 1 .. n] : \A i, j \in 1 .. n : p[i] = p[j] => i = j}

\* lines 159-183: the three masks, as sets of nodes
NodeSplitMasks(inst, labels, perm) ==
    LET nodes_with_class == NodesWithClass(labels)
        n == Len(nodes_with_class)
        n_train == IntOfQuarters(inst.train_ratio, n)
        n_val == IntOfQuarters(inst.val_ratio, n)
        n_test == IntOfQuarters(inst.test_ratio, n)
        train_nodes == PySlice(perm, 0, n_train)
        val_nodes == PySlice(perm, n_train, n_train + n_val)
        test_nodes == PySlice(perm, n_train + n_val, n_train + n_val + n_test)
        MaskOf(picked) == {nodes_with_class[k] : k \in Range(picked)}
    IN  [train |-> MaskOf(train_nodes), val |-> MaskOf(val_nodes),
         test |-> MaskOf(test_nodes)]

NodeSplitCall ==
    /\ ~raised
    /\ calls < MaxLabelCalls
    /\ calls' = calls + 1
    /\ \E perm \in Perms(Len(NodesWithClass(y))) :
          LET m == NodeSplitMasks(ns, y, perm)
          IN  /\ train_mask' = m.train
              /\ val_mask' = m.val
              /\ test_mask' = m.test
    /\ last' = Called("NodeSplit", Some(y), <<>>)
    /\ UNCHANGED <<adj_t, y, y_raw, y0, lp, ns, raised, dataFeatureVars, errorVars, trainerVars>>

\* -------------------------------------------------------- LabelPerturbation
\* largest lp_step of an instance
MaxLpStep == 1

\* data.num_classes of PyG: the largest label plus one
num_classes(labels) ==
    (CHOOSE c \in Range(labels) : \A d \in Range(labels) : d <= c) + 1

\* supported_label_mechanisms[m](eps, d)(y): an opaque randomized response,
\* one one-hot row of d classes per node; draw[k] is the class node k reports
LabelMechanism(d, draw) ==
    [k \in 1 .. Len(draw) |-> [c \in 1 .. d |-> IF c = draw[k] + 1 THEN Q(1) ELSE Q(0)]]

\* line 100: adj_t[perturb_mask, perturb_mask], idx the masked nodes in order
SubAdj(adj, idx) ==
    [i \in 1 .. Len(idx) |->
        [j \in 1 .. Len(idx) |-> IF <<idx[i], idx[j]>> \in adj THEN Q(1) ELSE Q(0)]]

\* line 110: adj.sum(dim=1)
Deg(a) == [i \in 1 .. Len(a) |-> SeqSum(a[i])]

\* line 112: the diagonal of D_inv, 1 / deg
DInv(deg) == [i \in 1 .. Len(deg) |-> QDiv(Q(1), deg[i])]

\* lines 115-116: one propagation step, y = D_inv (adj y)
PropagateStep(a, dinv, ym) ==
    [i \in 1 .. Len(ym) |->
        [c \in 1 .. Len(ym[i]) |->
            QMul(dinv[i], SeqSum([j \in 1 .. Len(ym) |-> QMul(a[i][j], ym[j][c])]))]]

RECURSIVE Propagate(_, _, _, _)
Propagate(a, dinv, ym, steps) ==
    IF steps = 0 THEN ym ELSE Propagate(a, dinv, PropagateStep(a, dinv, ym), steps - 1)

\* argmax of one row, 0-based: the first NaN if there is one, else the first
\* maximal entry
ArgMax(row) ==
    IF \E c \in 1 .. Len(row) : IsNaN(row[c])
    THEN (CHOOSE c \in 1 .. Len(row) :
              IsNaN(row[c]) /\ \A d \in 1 .. c - 1 : ~IsNaN(row[d])) - 1
    ELSE (CHOOSE c \in 1 .. Len(row) :
              /\ \A d \in 1 .. Len(row) : QLeq(row[d], row[c])
              /\ \A d \in 1 .. c - 1 : QLess(row[d], row[c])) - 1

\* perturb(adj, y, num_classes), with the mechanism's draw
perturb(a, d, draw, lp_step) ==
    LET ym == Propagate(a, DInv(Deg(a)), LabelMechanism(d, draw), lp_step)
    IN  [k \in 1 .. Len(ym) |-> ArgMax(ym[k])]

\* lines 92-95: the labels the call starts from (snapshot or restore)
LPMutBase(labels, raw) == labels

LPBase(labels, raw) == IF raw = NoAttr THEN labels ELSE Get(raw)

LPRaw(labels, raw) == IF raw = NoAttr THEN Some(labels) ELSE raw

\* line 97: data.train_mask | data.val_mask
PerturbMask(train, val) == train \cup val

\* line 99: data.y[perturb_mask] = ..., idx the masked nodes in order
LPWriteBack(base, idx, labels) ==
    [i \in DOMAIN base |->
        IF \E k \in 1 .. Len(idx) : idx[k] = i
        THEN labels[CHOOSE k \in 1 .. Len(idx) : idx[k] = i]
        ELSE base[i]]

LabelPerturbationCall ==
    /\ ~raised
    /\ calls < MaxLabelCalls
    /\ calls' = calls + 1
    /\ UNCHANGED <<adj_t, y0, train_mask, val_mask, test_mask, lp, ns, raised, errorVars, trainerVars,
                   dataFeatureVars>>
    /\ IF lp.epsilon_y = None
       THEN /\ UNCHANGED <<y, y_raw>>
            /\ last' = Called("LabelPerturbation", Some(y), <<>>)
       ELSE LET base == LPBase(y, y_raw)
                idx == SortedSeq(PerturbMask(train_mask, val_mask))
                a == SubAdj(adj_t, idx)
                d == num_classes(base)
            IN  /\ y_raw' = LPRaw(y, y_raw)
                /\ \E draw \in [1 .. Len(idx) -> 0 .. d - 1] :
                      y' = LPWriteBack(base, idx, perturb(a, d, draw, lp.lp_step))
                /\ last' = Called("LabelPerturbation", Some(y),
                                  [mask |-> PerturbMask(train_mask, val_mask),
                                   deg |-> Deg(a), D_inv |-> DInv(Deg(a))])

\* ---------------------------------------------------- the label pipeline
LPConfigs ==
    {[epsilon_y |-> None, lp_step |-> 0]}
        \cup {[epsilon_y |-> Some(1), lp_step |-> k] : k \in 0 .. MaxLpStep}

\* the splits of SpecLabel: the default ratios and one that fills all three
\* masks of a three-node dataset
LabelSplits == {NodeSplitInit(None, 1, 1), NodeSplitInit(Some(2), 2, 2)}

InitLabel ==
    /\ x = Mat([i \in LNodes |-> <<Q(0)>>])
    /\ x_raw = NoAttr
    /\ adj_t \in LabelGraphs
    /\ y \in LabelInputs
    /\ y_raw = NoAttr
    /\ y0 = y
    /\ train_mask = {}
    /\ val_mask = {}
    /\ test_mask = {}
    /\ fp = FeaturePerturbationInit(None, None, None)
    /\ lp \in LPConfigs
    /\ ns \in LabelSplits
    /\ raised = FALSE
    /\ calls = 0
    /\ fpLog = <<>>
    /\ pristine = NoAttr
    /\ ee = None
    /\ logger = <<>>
    /\ trainer = None
    /\ checkpoint_file = None
    /\ last = Called("none", None, <<>>)

NextLabel ==
    \/ NodeSplitCall
    \/ LabelPerturbationCall

SpecLabel == InitLabel /\ [][NextLabel]_vars


\* -------------------------------------------------- claims on SpecLabel
\* C2: after a call of LabelPerturbation with epsilon_y set, every node outside
\* the current train and val masks (every test node in particular) carries the
\* label the dataset was loaded with, also when the masks were split again
\* between two calls.
C2_OutsideMaskPristine ==
    (last.op = "LabelPerturbation" /\ lp.epsilon_y # None) =>
        \A i \in DOMAIN y : i \notin train_mask \cup val_mask => y[i] = y0[i]

\* a call on entry to which a test node carried a perturbed label, left by an
\* earlier call under an earlier split
C2_Witness ==
    /\ last.op = "LabelPerturbation"
    /\ lp.epsilon_y # None
    /\ \E i \in test_mask : Get(last.entry)[i] # y0[i] /\ y[i] = y0[i]
    /\ \E i \in train_mask \cup val_mask : y[i] # y0[i]

\* C9: the degree normalization is guarded: no entry of D_inv is the quotient
\* of a division by zero, whatever lp_step is.
C9_NoDivisionByZero ==
    (last.op = "LabelPerturbation" /\ lp.epsilon_y # None) =>
        \A k \in 1 .. Len(last.args.D_inv) : IsFinite(last.args.D_inv[k])


\* ------------------------------------------------------- the split alone
\* the datasets of SpecSplit: four nodes, each labeled (0) or unlabeled (-1)
SNodes == 1 .. 4

InitSplit ==
    /\ x = Mat([i \in SNodes |-> <<Q(0)>>])
    /\ x_raw = NoAttr
    /\ adj_t = PathGraph(SNodes)
    /\ y \in [SNodes -> {-1, 0}]
    /\ y_raw = NoAttr
    /\ y0 = y
    /\ train_mask = {}
    /\ val_mask = {}
    /\ test_mask = {}
    /\ fp = FeaturePerturbationInit(None, None, None)
    /\ lp = [epsilon_y |-> None, lp_step |-> 0]
    /\ ns \in NodeSplits
    /\ raised = FALSE
    /\ calls = 0
    /\ fpLog = <<>>
    /\ pristine = NoAttr
    /\ ee = None
    /\ logger = <<>>
    /\ trainer = None
    /\ checkpoint_file = None
    /\ last = Called("none", None, <<>>)

NextSplit == NodeSplitCall

SpecSplit == InitSplit /\ [][NextSplit]_vars

\* -------------------------------------------------- claims on SpecSplit
Labeled == {i \in DOMAIN y : y[i] # -1}

\* C3: for every instance the constructor accepts, the three masks of a call
\* are pairwise disjoint, hold labeled nodes only, and together hold at most
\* as many nodes as are labeled.
C3_DisjointMasks ==
    last.op = "NodeSplit" =>
        /\ train_mask \cap val_mask = {}
        /\ train_mask \cap test_mask = {}
        /\ val_mask \cap test_mask = {}
        /\ train_mask \cup val_mask \cup test_mask \subseteq Labeled
        /\ Cardinality(train_mask) + Cardinality(val_mask) + Cardinality(test_mask)
              <= Cardinality(Labeled)

\* C4: for every instance the constructor accepts, on n labeled nodes the
\* masks hold exactly floor(train_ratio n), floor(val_ratio n) and
\* floor(test_ratio n) nodes, and no unlabeled node is in a mask.
FloorOfQuarters(q, n) == (q * n) \div 4

C4_ExactSizes ==
    last.op = "NodeSplit" =>
        LET n == Cardinality(Labeled)
        IN  /\ Cardinality(train_mask) = FloorOfQuarters(ns.train_ratio, n)
            /\ Cardinality(val_mask) = FloorOfQuarters(ns.val_ratio, n)
            /\ Cardinality(test_mask) = FloorOfQuarters(ns.test_ratio, n)
            /\ \A i \in DOMAIN y : i \notin Labeled =>
                  i \notin train_mask \cup val_mask \cup test_mask


\* ------------------------------------------------------- ErrorEstimation
MaxErrorCalls == 2

ENodes == 1 .. 5

\* the 5-node cycle, a triangle beside an edge, a square beside an isolated
\* node, and the graph without edges
ErrorGraphs ==
    {Undirected({<<1, 2>>, <<2, 3>>, <<3, 4>>, <<4, 5>>, <<5, 1>>}),
     Undirected({<<1, 2>>, <<2, 3>>, <<1, 3>>, <<4, 5>>}),
     Undirected({<<1, 2>>, <<2, 3>>, <<3, 4>>, <<4, 1>>}),
     Undirected({})}

\* 5 x 2 attribute matrices over {0, 1} whose columns do not decrease
ErrorInputs ==
    {m \in Matrices(Cardinality(ENodes), 2, {Q(0), Q(1)}) :
        \A i \in 1 .. Len(m.v) - 1 : \A k \in 1 .. 2 : QLeq(m.v[i][k], m.v[i + 1][k])}

QAbs(a) == <<Abs(a[1]), a[2]>>

\* the square root of a perfect square
ISqrt(n) == CHOOSE r \in 0 .. n : r * r = n

\* GCNConv's symmetric normalization with self-loops: the coefficient of the
\* edge j -> i is 1 / sqrt((deg(j) + 1) (deg(i) + 1)).  Every edge of
\* ErrorGraphs joins nodes of equal degree, so the root is exact.
GcnNorm(adj, j, i) ==
    Norm(1, ISqrt((InDegree(adj, j) + 1) * (InDegree(adj, i) + 1)))

\* GCNConv with identity weight and zero bias applied to t over adj
GCNConv(adj, t) ==
    Mat([i \in 1 .. Size0(t) |->
            [k \in 1 .. num_features(t) |->
                LET src == SortedSeq({j \in 1 .. Size0(t) : <<j, i>> \in adj} \cup {i})
                IN  SeqSum([n \in 1 .. Len(src) |->
                               QMul(GcnNorm(adj, src[n], i), t.v[src[n]][k])])]])

\* __init__: delta of raw_features, and the diffusion of raw_features; the
\* convolution caches the normalized graph of its first call
ErrorEstimationInit(adj, raw_features, max_degree_quantile) ==
    [delta |-> NormDelta(raw_features),
     max_degree_quantile |-> max_degree_quantile,
     cached |-> adj,
     gc |-> GCNConv(adj, raw_features)]

\* lines 31-33: (gc - gc_hat) / delta, then zero where delta == 0
DiffMutUnmasked(est, t) ==
    LET gc_hat == GCNConv(est.cached, t)
    IN  [i \in 1 .. Size0(t) |->
            [k \in 1 .. Len(est.delta) |->
                QDiv(QSub(est.gc.v[i][k], gc_hat.v[i][k]), est.delta[k])]]

Diff(est, t) ==
    LET gc_hat == GCNConv(est.cached, t)
    IN  [i \in 1 .. Size0(t) |->
            [k \in 1 .. Len(est.delta) |->
                IF est.delta[k] = Q(0) THEN Q(0)
                ELSE QDiv(QSub(est.gc.v[i][k], gc_hat.v[i][k]), est.delta[k])]]

\* line 34: torch.norm(diff, p=1, dim=1) / num_features
Errors(est, t) ==
    LET diff == Diff(est, t)
    IN  [i \in 1 .. Size0(t) |->
            QDiv(SeqSum([k \in 1 .. Len(diff[i]) |-> QAbs(diff[i][k])]),
                 Q(num_features(t)))]

\* line 38: degree(row, num_nodes), the number of edges leaving each node
Degrees(adj, n) == [i \in 1 .. n |-> Cardinality({e \in adj : e[1] = i})]

\* the integers of a sequence in increasing order, repetitions kept
RECURSIVE SortInts(_)
SortInts(s) ==
    IF s = <<>> THEN <<>>
    ELSE LET k == CHOOSE a \in 1 .. Len(s) : \A b \in 1 .. Len(s) : s[a] <= s[b]
         IN  <<s[k]>> \o SortInts([n \in 1 .. Len(s) - 1 |-> IF n < k THEN s[n] ELSE s[n + 1]])

\* pandas Series.quantile(q), linear interpolation: with the values sorted
\* as s[0 .. n-1] and pos = q (n - 1), s[lo] + (s[hi] - s[lo]) * (pos - lo)
Quantile(vals, q) ==
    IF vals = <<>> THEN NaN
    ELSE LET s == SortInts(vals)
             n == Len(s)
             lo == (q[1] * (n - 1)) \div q[2]
             frac == Norm((q[1] * (n - 1)) % q[2], q[2])
             hi == IF lo + 1 < n THEN lo + 1 ELSE lo
         IN  QAdd(Q(s[lo + 1]), QMul(Q(s[hi + 1] - s[lo + 1]), frac))

\* line 41: the rows whose degree is strictly below the quantile
KeptRows(degrees, q) ==
    {i \in DOMAIN degrees : QLess(Q(degrees[i]), Quantile(degrees, q))}

Mean(vals) == QDiv(SeqSum(vals), Q(Len(vals)))

\* the sample variance (ddof = 1), NaN for a single value; pandas' std is its
\* square root, which is 0 exactly when the variance is 0
Var(vals) ==
    LET m == Mean(vals)
    IN  QDiv(SeqSum([n \in 1 .. Len(vals) |-> QMul(QSub(vals[n], m), QSub(vals[n], m))]),
             Q(Len(vals) - 1))

FillNa(v) == IF IsNaN(v) THEN Q(0) ELSE v

\* line 42: groupby('degree').agg(['mean', 'std']).fillna(0), one row per
\* degree among the kept rows, by increasing degree
GroupByDegree(degrees, errors, rows) ==
    LET degs == SortedSeq({degrees[i] : i \in rows})
    IN  [n \in 1 .. Len(degs) |->
            LET members == SortedSeq({i \in rows : degrees[i] = degs[n]})
                errs == [m \in 1 .. Len(members) |-> errors[members[m]]]
            IN  [degree |-> degs[n], mae |-> FillNa(Mean(errs)), var |-> FillNa(Var(errs))]]

\* run: the rows handed to logger.log_metrics, in order
ErrorEstimationRun(est, adj, t) ==
    LET degrees == Degrees(adj, Size0(t))
    IN  GroupByDegree(degrees, Errors(est, t), KeptRows(degrees, est.max_degree_quantile))

\* the default 0.99 and the median
QuantileArgs == {<<99, 100>>, <<1, 2>>}

\* ErrorEstimation(data, raw_features, max_degree_quantile): raw_features is
\* the loaded attribute matrix or the current one
ErrorEstimationInitCall ==
    /\ calls < MaxErrorCalls
    /\ calls' = calls + 1
    /\ \E q \in QuantileArgs, raw \in {Get(pristine), x} :
          /\ ee' = Some(ErrorEstimationInit(adj_t, raw, q))
          /\ last' = Called("ErrorEstimation", None, <<>>)
    /\ UNCHANGED <<adj_t, dataLabelVars, dataFeatureVars, raised, logger, trainerVars>>

\* privatize(data, method, eps) of the missing privacy module: data.x is
\* replaced by perturbed values within the range of x
privatize(t, s) == Mechanism(<<SeqMin(Elems(t)), SeqMax(Elems(t))>>, t, s)

privatizeCall ==
    /\ calls < MaxErrorCalls
    /\ calls' = calls + 1
    /\ \E s \in MechDraws : x' = privatize(x, s)
    /\ last' = Called("privatize", None, <<>>)
    /\ UNCHANGED <<x_raw, fp, fpLog, pristine, adj_t, dataLabelVars, raised, errorVars, trainerVars>>

ErrorEstimationRunCall ==
    /\ calls < MaxErrorCalls
    /\ calls' = calls + 1
    /\ ee # None
    /\ logger' = ErrorEstimationRun(Get(ee), adj_t, x)
    /\ last' = Called("ErrorEstimation.run", None,
                       [diff |-> Diff(Get(ee), x), errors |-> Errors(Get(ee), x)])
    /\ UNCHANGED <<adj_t, dataLabelVars, dataFeatureVars, raised, ee, trainerVars>>

\* error_estimation, one pass of the loop over range(repeats), lines 49-66:
\* either the next repeat of the call in progress or the first repeat of a
\* new call.  entry is data.x as the call received it.
error_estimationRepeat ==
    /\ calls < MaxErrorCalls
    /\ calls' = calls + 1
    /\ \E s \in MechDraws :
          LET raw_features == x
              est == ErrorEstimationInit(adj_t, raw_features, <<99, 100>>)
          IN  /\ x' = privatize(x, s)
              /\ ee' = Some(est)
              /\ logger' = ErrorEstimationRun(est, adj_t, x')
              /\ \E fresh \in BOOLEAN :
                    LET continues == last.op = "error_estimation" /\ ~fresh
                    IN  last' = Called("error_estimation",
                                      IF continues THEN last.entry ELSE Some(x),
                                      [run |-> IF continues THEN last.args.run + 1 ELSE 0,
                                       raw_features |-> raw_features])
    /\ UNCHANGED <<x_raw, fp, fpLog, pristine, adj_t, dataLabelVars, raised, trainerVars>>

InitError ==
    /\ x \in ErrorInputs
    /\ x_raw = NoAttr
    /\ adj_t \in ErrorGraphs
    /\ y = [i \in ENodes |-> 0]
    /\ y_raw = NoAttr
    /\ y0 = y
    /\ train_mask = {}
    /\ val_mask = {}
    /\ test_mask = {}
    /\ fp = FeaturePerturbationInit(None, None, None)
    /\ lp = [epsilon_y |-> None, lp_step |-> 0]
    /\ ns = NodeSplitInit(None, 1, 1)
    /\ raised = FALSE
    /\ calls = 0
    /\ fpLog = <<>>
    /\ pristine = Some(x)
    /\ ee = None
    /\ logger = <<>>
    /\ trainer = None
    /\ checkpoint_file = None
    /\ last = Called("none", None, <<>>)

NextError ==
    \/ ErrorEstimationInitCall
    \/ privatizeCall
    \/ ErrorEstimationRunCall
    \/ error_estimationRepeat

SpecError == InitError /\ [][NextError]_vars

\* -------------------------------------------------- claims on SpecError
\* the estimator was built from the loaded attributes, which are still the
\* current ones, and the last call is its run
RunOnPristine ==
    /\ last.op = "ErrorEstimation.run"
    /\ x = Get(pristine)
    /\ Get(ee).gc = GCNConv(adj_t, Get(pristine))
    /\ Get(ee).delta = NormDelta(Get(pristine))

UniformDegree(d) == \A i \in DOMAIN x.v : Degrees(adj_t, Size0(x))[i] = d

\* C6: when the current attributes equal the pristine ones and every node has
\* the same degree d, with max_degree_quantile 0.99, run reports exactly one
\* degree bucket, at degree d, with mean error 0 and std 0.
C6_SingleBucket ==
    \A d \in 0 .. Cardinality(ENodes) :
        (/\ RunOnPristine
         /\ Get(ee).max_degree_quantile = <<99, 100>>
         /\ UniformDegree(d))
            => logger = <<[degree |-> d, mae |-> Q(0), var |-> Q(0)]>>


\* C11: in run, every feature dimension whose pristine range delta is zero
\* contributes exactly 0 to the discrepancy of every node, and neither the
\* per-node errors nor the reported means hold a NaN or an Inf, whatever the
\* current attributes are.
C11_ZeroDeltaMasked ==
    last.op = "ErrorEstimation.run" =>
        /\ \A i \in DOMAIN last.args.diff : \A k \in DOMAIN last.args.diff[i] :
              Get(ee).delta[k] = Q(0) => last.args.diff[i][k] = Q(0)
        /\ \A i \in DOMAIN last.args.errors : IsFinite(last.args.errors[i])
        /\ \A n \in DOMAIN logger : IsFinite(logger[n].mae)

\* a run whose estimator has a zero-range dimension in which the current
\* diffusion differs from the cached one, and which reports a non-zero mean
C11_Witness ==
    /\ last.op = "ErrorEstimation.run"
    /\ \E k \in DOMAIN Get(ee).delta :
          /\ Get(ee).delta[k] = Q(0)
          /\ \E i \in DOMAIN x.v :
                GCNConv(Get(ee).cached, x).v[i][k] # Get(ee).gc.v[i][k]
    /\ \E n \in DOMAIN logger : logger[n].mae # Q(0)


\* C12: in every repeat of error_estimation, the raw_features used as ground
\* truth are the attributes the call received, not the attributes a previous
\* repeat's privatize returned.
C12_PristineGroundTruth ==
    last.op = "error_estimation" => last.args.raw_features = Get(last.entry)


\* ------------------------------------------ further claims on SpecFeature
\* C13: in every invocation with epsilon_x set, every value of the matrix
\* handed to the mechanism lies within the input_range handed to it, also
\* when the matrix is the random projection of the pristine attributes.
C13_WithinRange ==
    \A k \in 1 .. Len(fpLog) :
        LET vals == Elems(fpLog[k].arg)
        IN  \A n \in 1 .. Len(vals) :
                /\ QLeq(fpLog[k].range[1], vals[n])
                /\ QLeq(vals[n], fpLog[k].range[2])


\* ------------------------------------------------------------------ Trainer
MaxEpochs == 2
MaxFits == 2

\* the values validation_step returns as val_loss
LossVals == {Q(1), Q(2)}

\* a model state is named <<f, k>>: the parameters after the k-th optimizer
\* step of the f-th fit, k = 0 for the parameters fit received

\* __init__: a new uuid names checkpoint_path, so no file exists there yet.
\* best_val_loss, epoch, val_loss are the locals of fit; pc is its position;
\* val_losses are the losses of the validated epochs of the current fit.
TrainerInit(max_epochs, checkpoint) ==
    [max_epochs |-> max_epochs, checkpoint |-> checkpoint, model |-> None,
     fit |-> 0, pc |-> "idle", epoch |-> 0, best_val_loss |-> Inf,
     val_loss |-> None, val_losses |-> <<>>, interrupted |-> FALSE]

nonTrainerVars ==
    <<x, x_raw, adj_t, y, y_raw, y0, train_mask, val_mask, test_mask,
      fp, lp, ns, calls, fpLog, pristine, ee, logger, last>>

\* lines 48-55: fit is entered
FitEnter ==
    /\ ~raised
    /\ trainer.pc \in {"idle", "returned", "tested"}
    /\ trainer.fit < MaxFits
    /\ trainer' = [trainer EXCEPT !.fit = @ + 1, !.model = Some(<<trainer.fit + 1, 0>>),
                                  !.pc = "loop", !.epoch = 0, !.best_val_loss = Inf,
                                  !.val_loss = None, !.val_losses = <<>>,
                                  !.interrupted = FALSE]
    /\ UNCHANGED <<checkpoint_file, raised, nonTrainerVars>>

\* lines 57-59: the next epoch starts and _train makes one optimizer step
TrainStep ==
    /\ trainer.pc = "loop"
    /\ trainer.epoch < trainer.max_epochs
    /\ trainer' = [trainer EXCEPT !.epoch = @ + 1,
                                  !.model = Some(<<trainer.fit, trainer.epoch + 1>>),
                                  !.pc = "validate"]
    /\ UNCHANGED <<checkpoint_file, raised, nonTrainerVars>>

\* lines 61-62: val_loss of the current parameters
ValidationStep ==
    /\ trainer.pc = "validate"
    /\ \E loss \in LossVals :
          trainer' = [trainer EXCEPT !.val_loss = Some(loss),
                                     !.val_losses = Append(@, loss),
                                     !.pc = "checkpoint"]
    /\ UNCHANGED <<checkpoint_file, raised, nonTrainerVars>>

\* line 67: whether the epoch's state is saved
Saves(inst) == inst.checkpoint /\ QLess(Get(inst.val_loss), inst.best_val_loss)

\* lines 67-69: the checkpoint is written on a strict improvement
CheckpointStep ==
    /\ trainer.pc = "checkpoint"
    /\ IF Saves(trainer)
       THEN /\ trainer' = [trainer EXCEPT !.best_val_loss = Get(trainer.val_loss),
                                          !.pc = "loop"]
            /\ checkpoint_file' = trainer.model
       ELSE /\ trainer' = [trainer EXCEPT !.pc = "loop"]
            /\ UNCHANGED checkpoint_file
    /\ UNCHANGED <<raised, nonTrainerVars>>

\* lines 74-75: KeyboardInterrupt anywhere inside the try block
KeyboardInterrupt ==
    /\ \/ trainer.pc = "loop" /\ trainer.epoch < trainer.max_epochs
       \/ trainer.pc \in {"validate", "checkpoint"}
    /\ trainer' = [trainer EXCEPT !.pc = "returned", !.interrupted = TRUE]
    /\ UNCHANGED <<checkpoint_file, raised, nonTrainerVars>>

\* lines 77-79: the loop is exhausted and fit returns
FitReturn ==
    /\ trainer.pc = "loop"
    /\ trainer.epoch = trainer.max_epochs
    /\ trainer' = [trainer EXCEPT !.pc = "returned"]
    /\ UNCHANGED <<checkpoint_file, raised, nonTrainerVars>>

\* test, lines 97-98: torch.load raises when the file does not exist
TestCall ==
    /\ ~raised
    /\ trainer.pc = "returned"
    /\ IF trainer.checkpoint /\ checkpoint_file = None
       THEN /\ raised' = TRUE
            /\ trainer' = [trainer EXCEPT !.pc = "tested"]
       ELSE /\ raised' = FALSE
            /\ trainer' = [trainer EXCEPT !.pc = "tested",
                              !.model = IF trainer.checkpoint THEN checkpoint_file ELSE @]
    /\ UNCHANGED <<checkpoint_file, nonTrainerVars>>

InitTrainer ==
    /\ x = Mat(<<>>)
    /\ x_raw = NoAttr
    /\ adj_t = {}
    /\ y = <<>>
    /\ y_raw = NoAttr
    /\ y0 = y
    /\ train_mask = {}
    /\ val_mask = {}
    /\ test_mask = {}
    /\ fp = FeaturePerturbationInit(None, None, None)
    /\ lp = [epsilon_y |-> None, lp_step |-> 0]
    /\ ns = NodeSplitInit(None, 1, 1)
    /\ raised = FALSE
    /\ calls = 0
    /\ fpLog = <<>>
    /\ pristine = NoAttr
    /\ ee = None
    /\ logger = <<>>
    /\ \E m \in 0 .. MaxEpochs, c \in BOOLEAN : trainer = TrainerInit(m, c)
    /\ checkpoint_file = None
    /\ last = Called("none", None, <<>>)

NextTrainer ==
    \/ FitEnter
    \/ TrainStep
    \/ ValidationStep
    \/ CheckpointStep
    \/ KeyboardInterrupt
    \/ FitReturn
    \/ TestCall

SpecTrainer == InitTrainer /\ [][NextTrainer]_vars

\* -------------------------------------------------- claims on SpecTrainer
\* the earliest epoch with the lowest validation loss
BestEpoch(losses) ==
    CHOOSE k \in 1 .. Len(losses) :
        /\ \A j \in 1 .. Len(losses) : QLeq(losses[k], losses[j])
        /\ \A j \in 1 .. k - 1 : losses[j] # losses[k]

\* C14: with checkpointing enabled, whenever fit has returned (the epochs
\* ran out, max_epochs = 0 included, or a KeyboardInterrupt ended it) the
\* checkpoint file exists and holds the state of the earliest epoch of that
\* fit with the lowest validation loss; a following test loads that state.
C14_CheckpointBest ==
    (trainer.checkpoint /\ trainer.pc \in {"returned", "tested"}) =>
        /\ checkpoint_file # None
        /\ trainer.val_losses # <<>> =>
              checkpoint_file = Some(<<trainer.fit, BestEpoch(trainer.val_losses)>>)
        /\ trainer.pc = "tested" => ~raised /\ trainer.model = checkpoint_file

=============================================================================
